---- MODULE Spec2Model ----
(***************************************************************************)
(* Model of traderjoes/Validation.py: the Validation check functions, the *)
(* orchestrator validate_pdp_data and the __main__ batch loop.            *)
(*                                                                         *)
(* JSON values are records [k, n, s, items]: k is the Python type name,    *)
(* n the integer payload (int, bool as 0/1, number of keys of a dict),     *)
(* s the characters of a str (a sequence of one-character strings) and     *)
(* items the elements of a list (the keys of a dict).                      *)
(***************************************************************************)
EXTENDS Integers, Sequences, FiniteSets, TLC

VARIABLES pdp_list, index, product_ids, invalid_data_details, outcomes, pc,
          summary, fn, input, output

vars == <<pdp_list, index, product_ids, invalid_data_details, outcomes, pc,
          summary, fn, input, output>>

batchVars == <<pdp_list, index, product_ids, invalid_data_details, outcomes,
               pc, summary>>

unitVars == <<fn, input, output>>

----------------------------------------------------------------------------
(* Bounds of the model *)

MaxBatch == 3

MaxTail == 3

MaxImages == 4

MaxDefects == 2

----------------------------------------------------------------------------
(* JSON values as Python objects *)

PyStr(chars) == [k |-> "str", n |-> 0, s |-> chars, items |-> <<>>]

PyInt(i) == [k |-> "int", n |-> i, s |-> <<>>, items |-> <<>>]

PyBool(b) == [k |-> "bool", n |-> IF b THEN 1 ELSE 0, s |-> <<>>, items |-> <<>>]

PyNone == [k |-> "NoneType", n |-> 0, s |-> <<>>, items |-> <<>>]

PyList(elems) == [k |-> "list", n |-> 0, s |-> <<>>, items |-> elems]

PyDict(keys) == [k |-> "dict", n |-> Len(keys), s |-> <<>>, items |-> keys]

\* isinstance(v, types): bool is a subclass of int
IsInstance(v, types) == v.k \in types \/ (v.k = "bool" /\ "int" \in types)

\* bool(v), as used by `not images` and `if images:`
Truthy(v) ==
    CASE v.k = "NoneType" -> FALSE
      [] v.k \in {"int", "bool"} -> v.n # 0
      [] v.k = "str" -> v.s # <<>>
      [] v.k = "list" -> v.items # <<>>
      [] v.k = "dict" -> v.n # 0

\* hash(v) is defined: lists and dicts are unhashable
Hashable(v) == v.k \in {"str", "int", "bool", "NoneType"}

\* a == b for hashable values: True == 1 and False == 0
PyEq(a, b) ==
    /\ a.n = b.n
    /\ a.s = b.s
    /\ \/ a.k = b.k
       \/ (a.k \in {"int", "bool"} /\ b.k \in {"int", "bool"})

\* x in S for a Python set S
PyIn(x, S) == \E y \in S : PyEq(x, y)

\* the elements `for e in v` yields; only called on iterable kinds
Iter(v) ==
    IF v.k = "str" THEN [i \in 1..Len(v.s) |-> PyStr(<<v.s[i]>>)] ELSE v.items

Iterable(v) == v.k \in {"str", "list", "dict"}

\* s.startswith(prefix) on character sequences
StartsWith(chars, prefix) ==
    /\ Len(chars) >= Len(prefix)
    /\ SubSeq(chars, 1, Len(prefix)) = prefix

----------------------------------------------------------------------------
(* product_data: a dict (k = "dict", f its key -> value mapping) or a      *)
(* JSON null entry of the list (k = "NoneType").                           *)

HasKey(product_data, key) == key \in DOMAIN product_data.f

\* product_data.get(key)
Get(product_data, key) ==
    IF HasKey(product_data, key) THEN product_data.f[key] ELSE PyNone

----------------------------------------------------------------------------
(* Return values: (ok, message), or an exception propagating to the caller *)

Msg(text) == [text |-> text, errors |-> <<>>, args |-> <<>>]

ArgMsg(text, v) == [text |-> text, errors |-> <<>>, args |-> <<v>>]

ListMsg(errs) == [text |-> "", errors |-> errs, args |-> <<>>]

Ret(ok, message) == [raised |-> FALSE, ok |-> ok, message |-> message]

\* a function returning a bare boolean
RetBool(ok) == Ret(ok, Msg(""))

Raise(exc) == [raised |-> TRUE, ok |-> FALSE, message |-> Msg(exc)]

----------------------------------------------------------------------------
(* is_valid_product_data *)

required_keys ==
    <<"brand", "title", "product_id", "url", "retail_price", "image", "category">>

IsValidProductData(product_data) ==
    IF product_data.k # "dict" THEN FALSE
    ELSE \A i \in 1..Len(required_keys) : HasKey(product_data, required_keys[i])

----------------------------------------------------------------------------
(* validate_product_data_schema *)

expected_structure ==
    << <<"brand", {"str"}>>,
       <<"title", {"str"}>>,
       <<"description", {"str"}>>,
       <<"image", {"str"}>>,
       <<"images", {"list"}>>,
       <<"retail_price", {"str"}>>,
       <<"final_price", {"str"}>>,
       <<"url", {"str"}>>,
       <<"product_id", {"int"}>>,
       <<"category", {"str"}>>,
       <<"sales_size", {"str"}>>,
       <<"availability", {"str"}>>,
       <<"Buzzwords", {"list"}>>,
       <<"nutrition", {"dict", "NoneType"}>>,
       <<"ingredients", {"list", "NoneType"}>>,
       <<"country_of_origin", {"str", "NoneType"}>> >>

MissingKey(key) ==
    [text |-> "Missing key", key |-> key, expected |-> {}, actual |-> ""]

IncorrectType(key, expected, actual) ==
    [text |-> "incorrect type", key |-> key, expected |-> expected,
     actual |-> actual]

\* the loop of lines 46-50 over expected_structure.items(), from entry i on
RECURSIVE ValidationErrors(_, _)
ValidationErrors(product_data, i) ==
    IF i > Len(expected_structure) THEN <<>>
    ELSE LET key == expected_structure[i][1]
             value == expected_structure[i][2]
             rest == ValidationErrors(product_data, i + 1)
         IN  IF ~HasKey(product_data, key)
             THEN <<MissingKey(key)>> \o rest
             ELSE IF ~IsInstance(product_data.f[key], value)
             THEN <<IncorrectType(key, value, product_data.f[key].k)>> \o rest
             ELSE rest

ValidateProductDataSchema(product_data) ==
    IF product_data.k # "dict" THEN Raise("TypeError")
    ELSE LET validation_errors == ValidationErrors(product_data, 1)
         IN  IF validation_errors # <<>>
             THEN Ret(FALSE, ListMsg(validation_errors))
             ELSE Ret(TRUE, Msg("Product data schema is valid."))

----------------------------------------------------------------------------
(* validate_selling_price. The prices of the model are numbers, null or    *)
(* absent; `<=` between a number and a str, list, dict raises TypeError.   *)

ValidateSellingPrice(product_data) ==
    IF product_data.k # "dict" THEN Raise("AttributeError")
    ELSE LET selling_price == Get(product_data, "selling_price")
             original_price == Get(product_data, "original_price")
         IN  IF selling_price.k # "NoneType" /\ original_price.k # "NoneType"
             THEN IF selling_price.k \in {"int", "bool"}
                     /\ original_price.k \in {"int", "bool"}
                  THEN RetBool(selling_price.n <= original_price.n)
                  ELSE Raise("TypeError")
             ELSE RetBool(TRUE)

----------------------------------------------------------------------------
(* validate_image_data *)

http == <<"h", "t", "t", "p">>

IsHttpStr(img) == img.k = "str" /\ StartsWith(img.s, http)

\* variant: the images list is tested before the image key
ValidateImageData_ImagesFirst(product_data) ==
    LET images == Get(product_data, "images")
    IN  IF ~Truthy(images)
           \/ ~\E i \in 1..Len(Iter(images)) : IsHttpStr(Iter(images)[i])
        THEN Ret(FALSE, Msg("Images list should contain at least one URL"))
        ELSE IF Get(product_data, "image").k = "NoneType"
        THEN Ret(FALSE, Msg("Image key cannot be null"))
        ELSE Ret(TRUE, Msg(""))

ValidateImageData(product_data) ==
    IF product_data.k # "dict" THEN Raise("AttributeError")
    ELSE IF Get(product_data, "image").k = "NoneType"
    THEN Ret(FALSE, Msg("Image key cannot be null"))
    ELSE LET images == Get(product_data, "images")
         IN  IF ~Truthy(images)
             THEN Ret(FALSE, Msg("Images list should contain at least one URL"))
             ELSE IF ~Iterable(images) THEN Raise("TypeError")
             ELSE IF ~\E i \in 1..Len(Iter(images)) : IsHttpStr(Iter(images)[i])
             THEN Ret(FALSE, Msg("Images list should contain at least one URL"))
             ELSE Ret(TRUE, Msg(""))

----------------------------------------------------------------------------
(* validate_url_format: re.compile(r'^https?://\S+$').match(url)           *)

\* \s of a str pattern, over the characters the model uses
IsSpace(c) == c \in {" ", "\t", "\n", "\r"}

\* the literal lit occurs in u at position i
LitAt(u, lit, i) ==
    /\ i + Len(lit) - 1 <= Len(u)
    /\ SubSeq(u, i, i + Len(lit) - 1) = lit

\* $ without re.MULTILINE: at the end of the string, or just before a
\* newline that is the last character
DollarAt(u, pos) ==
    \/ pos = Len(u) + 1
    \/ (pos = Len(u) /\ u[pos] = "\n")

\* ^http s? :// \S+ $ matched from position 1
UrlPatternMatch(u) ==
    /\ LitAt(u, http, 1)
    /\ \E a \in {5, 6} :
         /\ (a = 6 => LitAt(u, <<"s">>, 5))
         /\ LitAt(u, <<":", "/", "/">>, a)
         /\ \E e \in (a + 3)..Len(u) :
              /\ \A j \in (a + 3)..e : ~IsSpace(u[j])
              /\ DollarAt(u, e + 1)

UrlFormatMessage == Msg("URL should be in standardized format (e.g., http://example.com)")

ValidateUrlFormat(product_data) ==
    IF product_data.k # "dict" THEN Raise("AttributeError")
    ELSE LET url == Get(product_data, "url")
         IN  IF url.k # "NoneType"
             THEN IF url.k # "str" THEN Raise("TypeError")
                  ELSE IF ~UrlPatternMatch(url.s)
                  THEN Ret(FALSE, UrlFormatMessage)
                  ELSE Ret(TRUE, Msg(""))
             ELSE Ret(TRUE, Msg(""))

----------------------------------------------------------------------------
(* validate_product_id_uniqueness: returns the result and the set          *)
(* product_ids as the call leaves it.                                      *)

\* variant: the else branch forgets product_ids.add(product_id)
ValidateProductIdUniqueness_NoAdd(product_data, ids) ==
    LET product_id == Get(product_data, "product_id")
    IN  IF PyIn(product_id, ids)
        THEN [ret |-> Ret(FALSE, ArgMsg("Duplicate product_id", product_id)),
              ids |-> ids]
        ELSE [ret |-> Ret(TRUE, Msg("")), ids |-> ids]

\* variant: the id is added before the membership test
ValidateProductIdUniqueness_AddFirst(product_data, ids) ==
    LET product_id == Get(product_data, "product_id")
    IN  [ret |-> Ret(FALSE, ArgMsg("Duplicate product_id", product_id)),
         ids |-> ids \cup {product_id}]

ValidateProductIdUniqueness(product_data, ids) ==
    IF product_data.k # "dict"
    THEN [ret |-> Raise("AttributeError"), ids |-> ids]
    ELSE LET product_id == Get(product_data, "product_id")
         IN  IF ~Hashable(product_id)
             THEN [ret |-> Raise("TypeError"), ids |-> ids]
             ELSE IF PyIn(product_id, ids)
             THEN [ret |-> Ret(FALSE, ArgMsg("Duplicate product_id", product_id)),
                   ids |-> ids]
             ELSE [ret |-> Ret(TRUE, Msg("")), ids |-> ids \cup {product_id}]

----------------------------------------------------------------------------
(* validate_duplicate_images *)

\* variant: unique_images keeps only the last element seen
RECURSIVE ScanImages_LastOnly(_, _, _)
ScanImages_LastOnly(elems, i, unique_images) ==
    IF i > Len(elems) THEN Ret(TRUE, Msg(""))
    ELSE LET image_url == elems[i]
         IN  IF ~Hashable(image_url) THEN Raise("TypeError")
             ELSE IF PyIn(image_url, unique_images)
             THEN Ret(FALSE, ArgMsg("Duplicate image URL", image_url))
             ELSE ScanImages_LastOnly(elems, i + 1, {image_url})

\* the loop of lines 117-121 from element i on, unique_images as built so far
RECURSIVE ScanImages(_, _, _)
ScanImages(elems, i, unique_images) ==
    IF i > Len(elems) THEN Ret(TRUE, Msg(""))
    ELSE LET image_url == elems[i]
         IN  IF ~Hashable(image_url) THEN Raise("TypeError")
             ELSE IF PyIn(image_url, unique_images)
             THEN Ret(FALSE, ArgMsg("Duplicate image URL", image_url))
             ELSE ScanImages(elems, i + 1, unique_images \cup {image_url})

ValidateDuplicateImages(product_data) ==
    IF product_data.k # "dict" THEN Raise("AttributeError")
    ELSE LET images == Get(product_data, "images")
         IN  IF Truthy(images)
             THEN IF ~Iterable(images) THEN Raise("TypeError")
                  ELSE ScanImages(Iter(images), 1, {})
             ELSE Ret(TRUE, Msg(""))

----------------------------------------------------------------------------
(* validate_pdp_data: returns the result and the global product_ids as the *)
(* call leaves it.                                                         *)

\* variant: the URL format is checked before the images
ChecksAfterSchema_UrlFirst(product_data, ids) ==
    LET url == ValidateUrlFormat(product_data)
    IN  IF url.raised \/ ~url.ok THEN [ret |-> url, ids |-> ids]
        ELSE LET image == ValidateImageData(product_data)
        IN  IF image.raised \/ ~image.ok THEN [ret |-> image, ids |-> ids]
        ELSE LET unique == ValidateProductIdUniqueness(product_data, ids)
        IN  IF unique.ret.raised \/ ~unique.ret.ok THEN unique
        ELSE LET dup == ValidateDuplicateImages(product_data)
        IN  IF dup.raised \/ ~dup.ok THEN [ret |-> dup, ids |-> unique.ids]
        ELSE [ret |-> Ret(TRUE, Msg("Product data is valid")), ids |-> unique.ids]

\* lines 141-159: the checks that follow the schema check
ChecksAfterSchema(product_data, ids) ==
    LET image == ValidateImageData(product_data)
    IN  IF image.raised \/ ~image.ok THEN [ret |-> image, ids |-> ids]
        ELSE LET url == ValidateUrlFormat(product_data)
        IN  IF url.raised \/ ~url.ok THEN [ret |-> url, ids |-> ids]
        ELSE LET unique == ValidateProductIdUniqueness(product_data, ids)
        IN  IF unique.ret.raised \/ ~unique.ret.ok THEN unique
        ELSE LET dup == ValidateDuplicateImages(product_data)
        IN  IF dup.raised \/ ~dup.ok THEN [ret |-> dup, ids |-> unique.ids]
        ELSE [ret |-> Ret(TRUE, Msg("Product data is valid")), ids |-> unique.ids]

\* variant: validate_selling_price is called after the schema check
ValidatePdpData_WithPrice(json_data, ids) ==
    LET product_data == json_data
    IN  IF ~IsValidProductData(product_data)
        THEN [ret |-> Ret(FALSE, Msg("Invalid product data structure")), ids |-> ids]
        ELSE LET schema == ValidateProductDataSchema(product_data)
        IN  IF schema.raised \/ ~schema.ok THEN [ret |-> schema, ids |-> ids]
        ELSE IF ~ValidateSellingPrice(product_data).ok
        THEN [ret |-> Ret(FALSE, Msg("selling_price exceeds original_price")),
              ids |-> ids]
        ELSE ChecksAfterSchema(product_data, ids)

ValidatePdpData(json_data, ids) ==
    LET product_data == json_data
    IN  IF ~IsValidProductData(product_data)
        THEN [ret |-> Ret(FALSE, Msg("Invalid product data structure")), ids |-> ids]
        ELSE LET schema == ValidateProductDataSchema(product_data)
        IN  IF schema.raised \/ ~schema.ok THEN [ret |-> schema, ids |-> ids]
        ELSE ChecksAfterSchema(product_data, ids)

----------------------------------------------------------------------------
(* Records of the model *)

X == PyStr(<<"x">>)

UrlA == PyStr(http \o <<":", "/", "/", "a">>)

UrlB == PyStr(http \o <<":", "/", "/", "b">>)

UrlFtp == PyStr(<<"f", "t", "p", ":", "/", "/", "a">>)

ValidFields ==
    [brand |-> X, title |-> X, description |-> X, image |-> UrlA,
     images |-> PyList(<<UrlA>>), retail_price |-> X, final_price |-> X,
     url |-> UrlA, product_id |-> PyInt(1), category |-> X, sales_size |-> X,
     availability |-> X, Buzzwords |-> PyList(<<X>>), nutrition |-> PyNone,
     ingredients |-> PyNone, country_of_origin |-> PyNone]

With(f, key, v) == (key :> v) @@ f

Without(f, key) == [x \in DOMAIN f \ {key} |-> f[x]]

Product(f) == [k |-> "dict", f |-> f]

\* a JSON null in the place of a product
NullEntry == [k |-> "NoneType", f |-> <<>>]

Mk(id, images, url) ==
    With(With(With(ValidFields, "product_id", id), "images", PyList(images)),
         "url", url)

BatchCatalogue ==
    << Product(Mk(PyInt(1), <<UrlA>>, UrlA)),
       Product(Mk(PyInt(2), <<UrlA>>, UrlA)),
       Product(Mk(PyBool(TRUE), <<UrlA>>, UrlA)),
       Product(Mk(PyInt(1), <<UrlA, UrlB, UrlA>>, UrlA)),
       Product(Mk(PyInt(2), <<UrlB, UrlB>>, UrlA)),
       Product(Mk(PyInt(1), <<UrlA>>, UrlFtp)),
       Product(Mk(PyInt(1), <<>>, UrlA)),
       Product(Mk(PyInt(1), <<UrlA, PyDict(<<>>)>>, UrlA)),
       Product(Mk(PyInt(2), <<PyList(<<>>), UrlB>>, UrlFtp)),
       Product(With(Mk(PyInt(1), <<UrlA>>, UrlA), "title", PyInt(7))),
       Product(Without(Mk(PyInt(2), <<UrlA>>, UrlA), "brand")),
       NullEntry >>

----------------------------------------------------------------------------
(* The __main__ batch loop *)

NoUnit == fn = "main" /\ input = <<>> /\ output = <<>>

Init ==
    /\ \E len \in 0..MaxBatch :
         \E c \in [1..len -> 1..Len(BatchCatalogue)] :
           pdp_list = [i \in 1..len |-> BatchCatalogue[c[i]]]
    /\ index = 0
    /\ product_ids = {}
    /\ invalid_data_details = <<>>
    /\ outcomes = <<>>
    /\ pc = "loop"
    /\ summary = ""
    /\ NoUnit

\* enumerate(pdp_list, start=1)
EnumerateStart == 1

\* variant: the position is reported 0-based
Collect_ZeroBased(details, position, ret) ==
    IF ~ret.ok
    THEN Append(details, [index |-> position - 1, message |-> ret.message])
    ELSE details

\* lines 169-170 for the record at position `position` of the list
Collect(details, position, ret) ==
    IF ~ret.ok
    THEN Append(details, [index |-> position - 1 + EnumerateStart,
                          message |-> ret.message])
    ELSE details

\* one iteration of the loop of lines 167-170; an exception of
\* validate_pdp_data is not caught and ends the program
ValidateRecord ==
    /\ pc = "loop"
    /\ index < Len(pdp_list)
    /\ LET call == ValidatePdpData(pdp_list[index + 1], product_ids)
       IN  /\ index' = index + 1
           /\ product_ids' = call.ids
           /\ outcomes' = Append(outcomes, call.ret)
           /\ IF call.ret.raised
              THEN /\ pc' = "raised"
                   /\ UNCHANGED invalid_data_details
              ELSE /\ pc' = "loop"
                   /\ invalid_data_details' =
                          Collect(invalid_data_details, index + 1, call.ret)
    /\ UNCHANGED <<pdp_list, summary, unitVars>>

\* lines 172-177
Report ==
    /\ pc = "loop"
    /\ index = Len(pdp_list)
    /\ pc' = "done"
    /\ summary' = IF invalid_data_details = <<>>
                  THEN "All product data is valid"
                  ELSE "Some product data is not valid:"
    /\ UNCHANGED <<pdp_list, index, product_ids, invalid_data_details,
                   outcomes, unitVars>>

Next == ValidateRecord \/ Report

Spec == Init /\ [][Next]_vars

----------------------------------------------------------------------------
(* Calls of single functions: input holds the arguments of the calls to be  *)
(* made (the record, and the set product_ids as the call finds it), output  *)
(* the results of the calls made so far (the result, and product_ids as the *)
(* call leaves it).                                                         *)

NoBatch ==
    /\ pdp_list = <<>>
    /\ index = 0
    /\ product_ids = {}
    /\ invalid_data_details = <<>>
    /\ outcomes = <<>>
    /\ pc = "unit"
    /\ summary = ""

Arg(product_data, ids) == [data |-> product_data, ids |-> ids]

Pure(ret, ids) == [ret |-> ret, ids |-> ids]

NextArg == input[Len(output) + 1]

\* the fields of ValidFields with the keys of D set as c chooses among
\* values: 0 removes the key
Override(D, c, values) ==
    [key \in (DOMAIN ValidFields) \ {d \in D : c[d] = 0} |->
        IF key \in D THEN values[c[key]] ELSE ValidFields[key]]

SchemaKeys == {expected_structure[i][1] : i \in 1..Len(expected_structure)}

SchemaValues ==
    << PyNone, PyStr(<<>>), X, PyInt(0), PyInt(7), PyBool(TRUE), PyBool(FALSE),
       PyList(<<>>), PyDict(<<>>) >>

InitSchema ==
    /\ NoBatch
    /\ fn = "validate_product_data_schema"
    /\ output = <<>>
    /\ \E D \in SUBSET SchemaKeys :
         /\ Cardinality(D) <= MaxDefects
         /\ \E c \in [D -> 0..Len(SchemaValues)] :
              input = <<Arg(Product(Override(D, c, SchemaValues)), {})>>

CallSchema ==
    /\ fn = "validate_product_data_schema"
    /\ Len(output) < Len(input)
    /\ output' = Append(output,
                        Pure(ValidateProductDataSchema(NextArg.data), NextArg.ids))
    /\ UNCHANGED <<batchVars, fn, input>>

SpecSchema == InitSchema /\ [][CallSchema]_vars

UrlSchemes ==
    << http, http \o <<"s">>, <<"f", "t", "p">>, <<"h", "t", "t">>,
       <<" ">> \o http, http \o <<"s", "s">>, <<>> >>

UrlSeparators == << <<":", "/", "/">>, <<":", "/">> >>

UrlTailChars == {"a", "/", " ", "\n", "\t"}

UrlTails == UNION {[1..n -> UrlTailChars] : n \in 0..MaxTail}

InitUrl ==
    /\ NoBatch
    /\ fn = "validate_url_format"
    /\ output = <<>>
    /\ \/ input = <<Arg(Product(Without(ValidFields, "url")), {})>>
       \/ input = <<Arg(Product(With(ValidFields, "url", PyNone)), {})>>
       \/ \E a \in 1..Len(UrlSchemes), b \in 1..Len(UrlSeparators), tail \in UrlTails :
            input = <<Arg(Product(With(ValidFields, "url",
                          PyStr(UrlSchemes[a] \o UrlSeparators[b] \o tail))), {})>>

CallUrl ==
    /\ fn = "validate_url_format"
    /\ Len(output) < Len(input)
    /\ output' = Append(output, Pure(ValidateUrlFormat(NextArg.data), NextArg.ids))
    /\ UNCHANGED <<batchVars, fn, input>>

SpecUrl == InitUrl /\ [][CallUrl]_vars

\* a value of the `images` key: absent, null, or the list of the chosen
\* elements
ImagesOptions(elems, maxLen) ==
    {[kind |-> "absent", sel |-> <<>>], [kind |-> "null", sel |-> <<>>]}
        \cup {[kind |-> "list", sel |-> sel] :
                  sel \in UNION {[1..n -> 1..Len(elems)] : n \in 0..maxLen}}

WithImages(f, elems, opt) ==
    CASE opt.kind = "absent" -> Without(f, "images")
      [] opt.kind = "null" -> With(f, "images", PyNone)
      [] opt.kind = "list" ->
            With(f, "images", PyList([i \in 1..Len(opt.sel) |-> elems[opt.sel[i]]]))

ImageElems ==
    << UrlA, X, PyStr(<<"h", "t", "t">>), PyInt(1), PyNone, PyDict(<<>>) >>

ImageValues == << PyNone, UrlA, PyStr(<<>>), PyInt(0) >>

InitImage ==
    /\ NoBatch
    /\ fn = "validate_image_data"
    /\ output = <<>>
    /\ \E c \in [{"image"} -> 0..Len(ImageValues)] :
         \E opt \in ImagesOptions(ImageElems, MaxImages) :
           input = <<Arg(Product(WithImages(Override({"image"}, c, ImageValues),
                                            ImageElems, opt)), {})>>

CallImage ==
    /\ fn = "validate_image_data"
    /\ Len(output) < Len(input)
    /\ output' = Append(output, Pure(ValidateImageData(NextArg.data), NextArg.ids))
    /\ UNCHANGED <<batchVars, fn, input>>

SpecImage == InitImage /\ [][CallImage]_vars

DupElems == << UrlA, UrlB, X, PyDict(<<>>) >>

\* two records checked one after the other
InitDup ==
    /\ NoBatch
    /\ fn = "validate_duplicate_images"
    /\ output = <<>>
    /\ \E first \in ImagesOptions(DupElems, MaxImages) :
         \E second \in ImagesOptions(DupElems, 2) :
           input = << Arg(Product(WithImages(ValidFields, DupElems, first)), {}),
                      Arg(Product(WithImages(ValidFields, DupElems, second)), {}) >>

CallDup ==
    /\ fn = "validate_duplicate_images"
    /\ Len(output) < Len(input)
    /\ output' = Append(output,
                        Pure(ValidateDuplicateImages(NextArg.data), NextArg.ids))
    /\ UNCHANGED <<batchVars, fn, input>>

SpecDup == InitDup /\ [][CallDup]_vars

\* records for one call of validate_pdp_data
Shape(f, shape) ==
    CASE shape = "ok" -> Product(f)
      [] shape = "no_brand" -> Product(Without(f, "brand"))
      [] shape = "no_description" -> Product(Without(f, "description"))
      [] shape = "title_int" -> Product(With(f, "title", PyInt(7)))
      [] shape = "image_null" -> Product(With(f, "image", PyNone))
      [] shape = "null_entry" -> NullEntry

Shapes == {"ok", "no_brand", "no_description", "title_int", "image_null", "null_entry"}

PdpImages ==
    << <<UrlA>>, <<>>, <<X>>, <<UrlA, UrlA>>, <<UrlA, PyDict(<<>>)>> >>

PdpUrls == << UrlA, UrlFtp >>

PdpIds == << PyInt(1), PyInt(2), PyBool(TRUE) >>

\* selling_price, original_price
Prices == << <<PyInt(20), PyInt(10)>>, <<PyInt(10), PyInt(20)>>, <<PyInt(20), PyNone>> >>

WithPrices(f, p) ==
    IF p = 0 THEN f
    ELSE With(With(f, "selling_price", Prices[p][1]), "original_price", Prices[p][2])

SeenBefore == {{}, {PyInt(1)}}

InitPdp ==
    /\ NoBatch
    /\ fn = "validate_pdp_data"
    /\ output = <<>>
    /\ \E shape \in Shapes, im \in 1..Len(PdpImages), u \in 1..Len(PdpUrls),
          id \in 1..Len(PdpIds), p \in 0..Len(Prices), ids \in SeenBefore :
         input = <<Arg(Shape(WithPrices(Mk(PdpIds[id], PdpImages[im], PdpUrls[u]), p),
                             shape), ids)>>

CallPdp ==
    /\ fn = "validate_pdp_data"
    /\ Len(output) < Len(input)
    /\ output' = Append(output, ValidatePdpData(NextArg.data, NextArg.ids))
    /\ UNCHANGED <<batchVars, fn, input>>

SpecPdp == InitPdp /\ [][CallPdp]_vars

----------------------------------------------------------------------------
(* Properties of the batch run *)

ProductId(i) == Get(pdp_list[i], "product_id")

Passes(ret) == ~ret.raised /\ ret.ok

Fails(ret) == ~ret.raised /\ ~ret.ok

\* record i passes the structural, schema, image and URL checks
PassesFirstFour(r) ==
    /\ IsValidProductData(r)
    /\ Passes(ValidateProductDataSchema(r))
    /\ Passes(ValidateImageData(r))
    /\ Passes(ValidateUrlFormat(r))

\* record r passes every check other than product-id uniqueness
PassesOthers(r) == PassesFirstFour(r) /\ Passes(ValidateDuplicateImages(r))

Reported(i) ==
    \E e \in 1..Len(invalid_data_details) : invalid_data_details[e].index = i

IsDuplicateIdFailure(ret, id) ==
    Fails(ret) /\ ret.message = ArgMsg("Duplicate product_id", id)

\* C1: in a batch whose records all pass every other check, a processed
\* record is reported (with the duplicate-product_id reason naming its own
\* id) if and only if an earlier record of the batch has the same
\* product_id, ids being the same as Python compares them (==): the first
\* occurrence of an id passes and every later occurrence fails.
C1_ProductIdUniqueness ==
    (\A i \in 1..Len(pdp_list) : PassesOthers(pdp_list[i])) =>
        \A i \in 1..index :
            LET earlier == \E j \in 1..(i - 1) : PyEq(ProductId(j), ProductId(i))
            IN  /\ Reported(i) <=> earlier
                /\ earlier <=> ~outcomes[i].ok
                /\ earlier => IsDuplicateIdFailure(outcomes[i], ProductId(i))
                /\ \A e \in 1..Len(invalid_data_details) :
                       invalid_data_details[e].index = i =>
                           invalid_data_details[e].message =
                               ArgMsg("Duplicate product_id", ProductId(i))

\* ids [1, 2, 1]: only the third record is flagged
C1_Witness ==
    /\ pc = "done"
    /\ Len(pdp_list) = 3
    /\ \A i \in 1..3 : PassesOthers(pdp_list[i])
    /\ ProductId(1) = PyInt(1) /\ ProductId(2) = PyInt(2) /\ ProductId(3) = PyInt(1)
    /\ Len(invalid_data_details) = 1
    /\ invalid_data_details[1].index = 3
    /\ invalid_data_details[1].message = ArgMsg("Duplicate product_id", PyInt(1))

\* C3: when the batch runner has finished, the failure list holds exactly
\* one entry for each record whose orchestration result is false and none for
\* the others, each with the record's 1-based position and its reason, in
\* record order; the batch is reported valid iff the list is empty.
C3_BatchReport ==
    pc = "done" =>
        LET failing == {i \in 1..Len(pdp_list) : ~outcomes[i].ok}
            details == invalid_data_details
        IN  /\ Len(outcomes) = Len(pdp_list)
            /\ Len(details) = Cardinality(failing)
            /\ \A e \in 1..Len(details) :
                   /\ details[e].index \in failing
                   /\ details[e].message = outcomes[details[e].index].message
                   /\ e > 1 => details[e - 1].index < details[e].index
            /\ (summary = "All product data is valid") <=> (details = <<>>)
            /\ (summary = "Some product data is not valid:") <=> (details # <<>>)

\* record 2 repeats record 1's product_id, record 3 is valid: one failure,
\* at position 2
C3_Witness ==
    /\ pc = "done"
    /\ Len(pdp_list) = 3
    /\ outcomes[1].ok /\ ~outcomes[2].ok /\ outcomes[3].ok
    /\ PyEq(ProductId(1), ProductId(2))
    /\ Len(invalid_data_details) = 1
    /\ invalid_data_details[1].index = 2
    /\ invalid_data_details[1].message.text = "Duplicate product_id"
    /\ summary = "Some product data is not valid:"

\* C4: no check and no call of the orchestrator raises, so the batch runner
\* is never ended by an exception and a run that can go no further has
\* processed every record.
C4_NoValidationFailureIsFatal ==
    /\ pc # "raised"
    /\ \A i \in 1..Len(outcomes) : ~outcomes[i].raised
    /\ pc = "done" => index = Len(pdp_list)

\* C10: the seen-id set holds exactly the product_ids of the processed
\* records that passed the structural, schema, image and URL checks (so it
\* only grows with the records processed and a failing uniqueness check adds
\* nothing); a record is flagged as a duplicate only of an earlier record that
\* passed those four checks; a record rejected only by the duplicate-image
\* check has registered its id, so a later record with that id is flagged.
C10_SeenIds ==
    LET registered == {i \in 1..index : PassesFirstFour(pdp_list[i])}
    IN  /\ \A i \in registered : PyIn(ProductId(i), product_ids)
        /\ \A x \in product_ids : \E i \in registered : x = ProductId(i)
        /\ \A j \in 1..index :
               (Fails(outcomes[j]) /\ outcomes[j].message.text = "Duplicate product_id")
                   => \E i \in registered : i < j /\ PyEq(ProductId(i), ProductId(j))
        /\ \A i \in 1..index : \A j \in (i + 1)..index :
               ( /\ Fails(outcomes[i])
                 /\ outcomes[i].message.text = "Duplicate image URL"
                 /\ PassesFirstFour(pdp_list[j])
                 /\ PyEq(ProductId(i), ProductId(j)) )
                   => IsDuplicateIdFailure(outcomes[j], ProductId(j))

\* a record rejected by the URL check, one rejected only by the
\* duplicate-image check and a valid one, all with product_id 1
C10_Witness ==
    /\ index = 3
    /\ \A i \in 1..3 : ProductId(i) = PyInt(1)
    /\ outcomes[1].message = UrlFormatMessage
    /\ outcomes[2].message.text = "Duplicate image URL"
    /\ IsDuplicateIdFailure(outcomes[3], PyInt(1))
    /\ product_ids = {PyInt(1)}

----------------------------------------------------------------------------
(* Properties of the single functions *)

Absent(r, key) == ~HasKey(r, key) \/ r.f[key].k = "NoneType"

\* C2: validate_pdp_data returns (False, reason) with the reason of the first
\* of the checks 4.1, 4.2, 4.4, 4.5, 4.6, 4.7 that fails, runs no check after
\* it (the seen-id set is left as it was unless 4.6 passed), and returns
\* (True, "Product data is valid") exactly when all six pass.
C2_OrchestrationOrder ==
    \A c \in 1..Len(output) :
        LET r == input[c].data
            ids == input[c].ids
            out == output[c]
            structure == IsValidProductData(r)
            schema == ValidateProductDataSchema(r)
            image == ValidateImageData(r)
            url == ValidateUrlFormat(r)
            unique == ValidateProductIdUniqueness(r, ids)
            dup == ValidateDuplicateImages(r)
            p2 == structure /\ Passes(schema)
            p4 == p2 /\ Passes(image)
            p5 == p4 /\ Passes(url)
            p6 == p5 /\ Passes(unique.ret)
        IN  /\ ~structure =>
                out = Pure(Ret(FALSE, Msg("Invalid product data structure")), ids)
            /\ (structure /\ Fails(schema)) => out = Pure(schema, ids)
            /\ (p2 /\ Fails(image)) => out = Pure(image, ids)
            /\ (p4 /\ Fails(url)) => out = Pure(url, ids)
            /\ (p5 /\ Fails(unique.ret)) => out = Pure(unique.ret, ids)
            /\ (p6 /\ Fails(dup)) => out = Pure(dup, unique.ids)
            /\ Passes(out.ret) <=> (p6 /\ Passes(dup))
            /\ Passes(out.ret) =>
                   out = Pure(Ret(TRUE, Msg("Product data is valid")), unique.ids)

\* a record with no image URL and a malformed url is rejected for its images
C2_Witness ==
    /\ fn = "validate_pdp_data"
    /\ Len(output) = 1
    /\ Passes(ValidateProductDataSchema(input[1].data))
    /\ Fails(ValidateImageData(input[1].data))
    /\ Fails(ValidateUrlFormat(input[1].data))
    /\ PyIn(Get(input[1].data, "product_id"), input[1].ids)
    /\ output[1].ret = Ret(FALSE, Msg("Images list should contain at least one URL"))

\* the record of call c with its two price fields set as p chooses
Repriced(r, p) ==
    IF r.k # "dict" THEN r
    ELSE Product(WithPrices(Without(Without(r.f, "selling_price"), "original_price"), p))

\* C9: records that differ only in selling_price and original_price get the
\* same result and leave the same seen-id set when validate_pdp_data runs
\* from the same seen-id set; a record with selling_price > original_price
\* that passes the six checks is reported valid.
C9_PriceNotOrchestrated ==
    \A c \in 1..Len(output) :
        LET r == input[c].data
            ids == input[c].ids
        IN  /\ \A p \in 0..Len(Prices) :
                   ValidatePdpData(Repriced(r, p), ids) = output[c]
            /\ ( /\ PassesOthers(r)
                 /\ ~PyIn(Get(r, "product_id"), ids)
                 /\ Get(r, "selling_price").k = "int"
                 /\ Get(r, "original_price").k = "int"
                 /\ Get(r, "selling_price").n > Get(r, "original_price").n )
                   => output[c].ret = Ret(TRUE, Msg("Product data is valid"))

\* selling_price 20 > original_price 10: validate_selling_price rejects the
\* record, validate_pdp_data reports it valid
C9_Witness ==
    /\ fn = "validate_pdp_data"
    /\ Len(output) = 1
    /\ ValidateSellingPrice(input[1].data) = RetBool(FALSE)
    /\ Get(input[1].data, "selling_price") = PyInt(20)
    /\ Get(input[1].data, "original_price") = PyInt(10)
    /\ output[1].ret = Ret(TRUE, Msg("Product data is valid"))
    /\ output[1].ids = input[1].ids \cup {Get(input[1].data, "product_id")}

\* the key holds the expected kind of value: a boolean is not an integer
Conforms(r, key, types) == HasKey(r, key) /\ r.f[key].k \in types

\* the positions of expected_structure whose field is missing or mistyped
Offending(r) ==
    {i \in 1..Len(expected_structure) :
        ~Conforms(r, expected_structure[i][1], expected_structure[i][2])}

\* C5: validate_product_data_schema returns (True, success message) iff each
\* of the 16 schema fields is present with a value of its expected type (null
\* allowed for nutrition, ingredients, country_of_origin); otherwise False
\* with exactly one message per offending field, in schema order.
C5_SchemaTypeCheck ==
    \A c \in 1..Len(output) :
        LET r == input[c].data
            ret == output[c].ret
            errs == ret.message.errors
        IN  /\ ~ret.raised
            /\ ret.ok <=> Offending(r) = {}
            /\ ret.ok => ret.message = Msg("Product data schema is valid.")
            /\ ~ret.ok =>
                 /\ Len(errs) = Cardinality(Offending(r))
                 /\ \A e \in 1..Len(errs) :
                      /\ \E i \in Offending(r) : expected_structure[i][1] = errs[e].key
                      /\ errs[e].text = IF HasKey(r, errs[e].key)
                                        THEN "incorrect type" ELSE "Missing key"
                 /\ \A e1, e2 \in 1..Len(errs) : e1 < e2 =>
                      \E i1, i2 \in Offending(r) :
                          /\ i1 < i2
                          /\ expected_structure[i1][1] = errs[e1].key
                          /\ expected_structure[i2][1] = errs[e2].key

\* http or https, then ://, then one or more non-whitespace characters and
\* nothing else
WellFormedUrl(u) ==
    \E prefix \in {http \o <<":", "/", "/">>, http \o <<"s", ":", "/", "/">>} :
        /\ StartsWith(u, prefix)
        /\ Len(u) > Len(prefix)
        /\ \A j \in (Len(prefix) + 1)..Len(u) : ~IsSpace(u[j])

\* C6: validate_url_format succeeds iff url is absent or null, or is
\* http/https, ://, one or more non-whitespace characters and nothing else
\* up to the end of the string; otherwise it returns the URL-format reason.
C6_UrlFormat ==
    \A c \in 1..Len(output) :
        LET r == input[c].data
        IN  output[c].ret =
                IF Absent(r, "url") \/ (r.f.url.k = "str" /\ WellFormedUrl(r.f.url.s))
                THEN Ret(TRUE, Msg(""))
                ELSE Ret(FALSE, UrlFormatMessage)

\* the list under `images`, empty when the key is absent or null
ImagesOf(r) == IF Absent(r, "images") THEN <<>> ELSE r.f.images.items

HasImageUrl(r) ==
    \E i \in 1..Len(ImagesOf(r)) :
        LET img == ImagesOf(r)[i]
        IN  /\ img.k = "str"
            /\ Len(img.s) >= 4
            /\ img.s[1] = "h" /\ img.s[2] = "t" /\ img.s[3] = "t" /\ img.s[4] = "p"

\* C7: validate_image_data fails with the image-null reason if image is null
\* or absent; otherwise with the at-least-one-URL reason if images is absent,
\* null, empty or holds no string starting with http; otherwise it succeeds
\* with an empty reason.
C7_ImageData ==
    \A c \in 1..Len(output) :
        LET r == input[c].data
        IN  output[c].ret =
                IF Absent(r, "image")
                THEN Ret(FALSE, Msg("Image key cannot be null"))
                ELSE IF ~HasImageUrl(r)
                THEN Ret(FALSE, Msg("Images list should contain at least one URL"))
                ELSE Ret(TRUE, Msg(""))

\* image is null and images holds no URL: the image-null reason wins
C7_Witness ==
    /\ fn = "validate_image_data"
    /\ Len(output) = 1
    /\ HasKey(input[1].data, "image")
    /\ Absent(input[1].data, "image")
    /\ Len(ImagesOf(input[1].data)) = 2
    /\ ~HasImageUrl(input[1].data)
    /\ output[1].ret = Ret(FALSE, Msg("Image key cannot be null"))

\* every entry of images is a string
ImagesAreStrings(r) ==
    \A i \in 1..Len(ImagesOf(r)) : ImagesOf(r)[i].k = "str"

\* the positions of images whose URL already occurs at an earlier position
Repeats(r) ==
    {j \in 1..Len(ImagesOf(r)) :
        \E i \in 1..(j - 1) : ImagesOf(r)[i] = ImagesOf(r)[j]}

\* C8: on a record whose images are strings, validate_duplicate_images fails
\* iff some URL occurs more than once in the record's own images, reporting
\* the URL whose second occurrence comes first; a URL that also occurs in
\* another record checked before plays no part.
C8_DuplicateImages ==
    \A c \in 1..Len(output) :
        LET r == input[c].data
            first == CHOOSE j \in Repeats(r) : \A m \in Repeats(r) : j <= m
        IN  ImagesAreStrings(r) =>
                output[c].ret =
                    IF Repeats(r) = {}
                    THEN Ret(TRUE, Msg(""))
                    ELSE Ret(FALSE, ArgMsg("Duplicate image URL", ImagesOf(r)[first]))

\* images [a, b, b, a] reports b; a second record holding a and b once each
\* passes
C8_Witness ==
    /\ fn = "validate_duplicate_images"
    /\ Len(output) = 2
    /\ ImagesOf(input[1].data) = <<UrlA, UrlB, UrlB, UrlA>>
    /\ output[1].ret = Ret(FALSE, ArgMsg("Duplicate image URL", UrlB))
    /\ ImagesOf(input[2].data) = <<UrlB, UrlA>>
    /\ output[2].ret = Ret(TRUE, Msg(""))

====
